---- MODULE Spec2Model ----
(***************************************************************************)
(* A model of the data structures of kaori:                                *)
(*   - KaoriStateStore (src/src/types/kaori.ts, lines 368-603): a map with *)
(*     per-entry TTL, LRU eviction at maxSize, a periodic sweep and an      *)
(*     onExpire callback;                                                   *)
(*   - Queue (src/src/features/queue.ts): a ring buffer that grows and      *)
(*     shrinks;                                                             *)
(*   - CooldownManager (src/src/features/cooldown.ts): a map from key to    *)
(*     expiry time, each entry with a one-shot removal timer.               *)
(* The objects are independent; each has its own specification, which      *)
(* leaves the other objects' variables alone.                              *)
(***************************************************************************)
EXTENDS Integers, Sequences, FiniteSets, Bags, TLC

VARIABLES
    \* ---- KaoriStateStore ----
    store,          \* this.store: the Map, as the sequence of its entries in
                    \* insertion order (a JS Map iterates in insertion order)
    options,        \* this.options: maxSize, ttl, onExpire ("none" when not supplied)
    cleanupActive,  \* whether the setInterval of startCleanup is still armed
    now,            \* the host clock, Date.now()
    written,        \* history: per key, what the last set() of it was given,
                    \* while the entry it wrote is in the map
    \* ---- the LRU scenario (a fixed call sequence on one store) ----
    pc,             \* number of scenario calls made so far
    obs,            \* what the scenario's three final get() calls returned
    stamps,         \* the clock values the scenario's calls stamped
    \* ---- Queue ----
    elements,       \* this.elements: the backing array, slots 0..length-1
    head,           \* this.head
    tail,           \* this.tail
    count,          \* this.count
    capacity,       \* this.capacity
    requested,      \* the initialCapacity the queue was constructed with
    fifo,           \* history: the elements enqueued and not yet dequeued,
                    \* oldest first, as a plain unbounded sequence keeps them
    nEnq,           \* history: the number of enqueue calls so far
    grows,          \* history: the number of grow() calls so far
    shrinks,        \* history: the number of shrink() calls so far
    \* ---- CooldownManager ----
    cooldowns,      \* this.cooldowns: the Map, as a function from the keys
                    \* present to their expiry times
    timers,         \* the setTimeout callbacks scheduled and not yet run: a
                    \* bag of [key, due]
    grant           \* history: per key, the last setCooldown that returned
                    \* true

storeVars == <<store, options, cleanupActive, now, written>>
scenVars  == <<pc, obs, stamps>>
queueVars == <<elements, head, tail, count, capacity, requested, fifo, nEnq,
               grows, shrinks>>
cooldownVars == <<cooldowns, timers, grant>>
vars      == <<store, options, cleanupActive, now, written, pc, obs, stamps,
               elements, head, tail, count, capacity, requested, fifo, nEnq,
               grows, shrinks, cooldowns, timers, grant>>

----------------------------------------------------------------------------
(* Bounds of the model. *)

\* The clock of the general specification runs from 0 to MaxTime.
MaxTime == 2
\* A store is constructed with maxSize in 1..MaxMaxSize.
MaxMaxSize == 2
\* A store is constructed with this ttl, in clock units.
StoreTTL == 1

\* The keys the callers use; the empty string is a string like any other.
Keys == {"", "a", "b"}
\* The keys of the LRU scenario.
ScenarioKeys == {"a", "b", "c"}
AllKeys == Keys \cup ScenarioKeys
\* undefined, as returned by get() for an absent key.
Undefined == 0
\* customTTL not passed to set().
NoTTL == -1
\* The (value, customTTL) arguments the callers pass to set(): a value stored
\* under the store's ttl, and another stored with customTTL = 0 (an entry
\* that lives for the clock reading it was written at only).
SetArgs == {<<1, NoTTL>>, <<2, 0>>}
\* The clock advances of the LRU scenario between two calls: none, one unit,
\* and more than half the scenario's ttl of 100000.
Delays == {0, 1, 60000}

----------------------------------------------------------------------------
(* The Map<string, StateEntry>. *)

\* Position of key in the map, 0 when it is not there.
IndexOf(s, key) ==
    LET at == {i \in 1 .. Len(s) : s[i].key = key}
    IN  IF at = {} THEN 0 ELSE CHOOSE i \in at : TRUE

MapHas(s, key) == IndexOf(s, key) # 0

MapGet(s, key) == s[IndexOf(s, key)]

MapKeys(s) == {s[i].key : i \in 1 .. Len(s)}

\* Map.set: an existing key keeps its place in the iteration order, a new key
\* goes to the end.
MapSet(s, key, e) ==
    IF MapHas(s, key)
    THEN [s EXCEPT ![IndexOf(s, key)] = e]
    ELSE Append(s, e)

\* Map.delete
MapDelete(s, key) ==
    SelectSeq(s, LAMBDA e : e.key # key)

StateEntry(key, data, expiresAt, lastAccessed) ==
    [key |-> key, data |-> data, expiresAt |-> expiresAt,
     lastAccessed |-> lastAccessed]

----------------------------------------------------------------------------
(* The methods of KaoriStateStore, as functions of the machine state       *)
(* m = [store, calls]: the map and the onExpire calls made so far. Each    *)
(* gives the machine state it leaves, what it returns (ret) and whether an *)
(* exception left it (thrown); no method has a try or a catch, so the only *)
(* exception is the one an onExpire callback throws, and it ends every     *)
(* method on the stack where it stands.                                    *)
(* options.onExpire is one of: "none" (not supplied), "returns" (a         *)
(* callback that returns), "throws" (one that throws on every call) and    *)
(* "throwsOnB" (one that throws when called for the key "b").              *)

\* Whether the call this.options.onExpire(key, entry.data) throws.
throws(key) ==
    \/ options.onExpire = "throws"
    \/ options.onExpire = "throwsOnB" /\ key = "b"

\* delete without the notification.
delete_silent(m, key) ==
    [store |-> MapDelete(m.store, key), calls |-> m.calls,
     ret |-> MapHas(m.store, key), thrown |-> FALSE]

\* delete(key): fires onExpire when the entry exists, then removes it.
delete(m, key) ==
    IF ~MapHas(m.store, key)
    THEN [store |-> m.store, calls |-> m.calls, ret |-> FALSE,
          thrown |-> FALSE]
    ELSE IF options.onExpire = "none"
    THEN [store |-> MapDelete(m.store, key), calls |-> m.calls,
          ret |-> TRUE, thrown |-> FALSE]
    ELSE IF throws(key)
    THEN [store |-> m.store,
          calls |-> Append(m.calls, <<key, MapGet(m.store, key).data>>),
          ret |-> TRUE, thrown |-> TRUE]
    ELSE [store |-> MapDelete(m.store, key),
          calls |-> Append(m.calls, <<key, MapGet(m.store, key).data>>),
          ret |-> TRUE, thrown |-> FALSE]

\* Date.now() >= entry.expiresAt
isExpired_ge(t, entry) == t >= entry.expiresAt

\* Date.now() > entry.expiresAt, as in get(), has() and the sweep
isExpired(t, entry) == t > entry.expiresAt

\* The scan of evictLRU: oldestKey starts null, oldestTime starts Infinity; an
\* entry replaces the candidate only when strictly older.
RECURSIVE evictScan(_, _, _)
evictScan(s, i, oldest) ==
    IF i > Len(s) THEN oldest
    ELSE evictScan(s, i + 1,
            IF oldest.infinity \/ s[i].lastAccessed < oldest.time
            THEN [null |-> FALSE, key |-> s[i].key, infinity |-> FALSE,
                  time |-> s[i].lastAccessed]
            ELSE oldest)

oldestOf(s) ==
    evictScan(s, 1, [null |-> TRUE, key |-> "", infinity |-> TRUE, time |-> 0])

\* if (oldestKey): null is falsy, and so is the empty string.
truthy(oldest) == ~oldest.null /\ oldest.key # ""

\* evictLRU()
evictLRU(m) ==
    LET oldest == oldestOf(m.store)
        d == delete(m, oldest.key)
    IN  IF truthy(oldest)
        THEN [store |-> d.store, calls |-> d.calls, thrown |-> d.thrown]
        ELSE [store |-> m.store, calls |-> m.calls, thrown |-> FALSE]

\* customTTL ?? this.options.ttl
effectiveTTL(customTTL) ==
    IF customTTL = NoTTL THEN options.ttl ELSE customTTL

\* Map.set that leaves an existing key's entry as it was.
storeEntry_keep(s, key, e) ==
    IF MapHas(s, key) THEN s ELSE Append(s, e)

\* this.store.set(key, {...}) of set()
storeEntry(s, key, e) == MapSet(s, key, e)

\* The test of set() without its second half.
mustEvict_full(s, key) == Len(s) >= options.maxSize

\* this.store.size >= this.options.maxSize && !this.store.has(key)
mustEvict(s, key) == Len(s) >= options.maxSize /\ ~MapHas(s, key)

\* set(key, value, customTTL), the clock reading t
set(m, key, value, customTTL, t) ==
    LET m1 == IF mustEvict(m.store, key)
              THEN evictLRU(m)
              ELSE [store |-> m.store, calls |-> m.calls, thrown |-> FALSE]
    IN  IF m1.thrown
        THEN [store |-> m1.store, calls |-> m1.calls, thrown |-> TRUE]
        ELSE [store |-> storeEntry(m1.store, key,
                          StateEntry(key, value, t + effectiveTTL(customTTL),
                                     t)),
              calls |-> m1.calls, thrown |-> FALSE]

\* get() that forgets to update lastAccessed.
touch_not(entry, t2) == entry

\* entry.lastAccessed = Date.now()
touch(entry, t2) == [entry EXCEPT !.lastAccessed = t2]

\* get() that returns the value and leaves the entry as it was.
get_untouched(m, key, t, t2) ==
    IF ~MapHas(m.store, key)
    THEN [store |-> m.store, calls |-> m.calls, ret |-> Undefined,
          thrown |-> FALSE]
    ELSE LET entry == MapGet(m.store, key)
             d == delete(m, key)
         IN  IF isExpired(t, entry)
             THEN [store |-> d.store, calls |-> d.calls, ret |-> Undefined,
                   thrown |-> d.thrown]
             ELSE [store |-> m.store, calls |-> m.calls, ret |-> entry.data,
                   thrown |-> FALSE]

\* get(key): t is the clock reading of the expiry test, t2 the later reading
\* stored in lastAccessed.
get(m, key, t, t2) ==
    IF ~MapHas(m.store, key)
    THEN [store |-> m.store, calls |-> m.calls, ret |-> Undefined,
          thrown |-> FALSE]
    ELSE LET entry == MapGet(m.store, key)
             d == delete(m, key)
         IN  IF isExpired(t, entry)
             THEN [store |-> d.store, calls |-> d.calls, ret |-> Undefined,
                   thrown |-> d.thrown]
             ELSE [store |-> MapSet(m.store, key, touch(entry, t2)),
                   calls |-> m.calls, ret |-> entry.data, thrown |-> FALSE]

\* has() that looks for the key only.
has_present(m, key, t) ==
    [store |-> m.store, calls |-> m.calls, ret |-> MapHas(m.store, key),
     thrown |-> FALSE]

\* has(key)
has(m, key, t) ==
    IF ~MapHas(m.store, key)
    THEN [store |-> m.store, calls |-> m.calls, ret |-> FALSE,
          thrown |-> FALSE]
    ELSE LET d == delete(m, key)
         IN  IF isExpired(t, MapGet(m.store, key))
             THEN [store |-> d.store, calls |-> d.calls, ret |-> FALSE,
                   thrown |-> d.thrown]
             ELSE [store |-> m.store, calls |-> m.calls, ret |-> TRUE,
                   thrown |-> FALSE]

\* The loop of clear(): one onExpire per entry, in iteration order, up to
\* and including the first call that throws.
RECURSIVE clearCalls(_, _, _)
clearCalls(s, i, cl) ==
    IF i > Len(s) THEN cl
    ELSE IF throws(s[i].key) THEN Append(cl, <<s[i].key, s[i].data>>)
    ELSE clearCalls(s, i + 1, Append(cl, <<s[i].key, s[i].data>>))

\* clear(): the loop of callbacks, then this.store.clear()
clear(m) ==
    IF options.onExpire = "none"
    THEN [store |-> << >>, calls |-> m.calls, thrown |-> FALSE]
    ELSE IF \E i \in 1 .. Len(m.store) : throws(m.store[i].key)
    THEN [store |-> m.store, calls |-> clearCalls(m.store, 1, m.calls),
          thrown |-> TRUE]
    ELSE [store |-> << >>, calls |-> clearCalls(m.store, 1, m.calls),
          thrown |-> FALSE]

\* size(), keys(), values() and entries()
size(m) == Len(m.store)

\* keys() that leaves out the entries whose time to live has elapsed.
keys_live(m) ==
    LET live == SelectSeq(m.store, LAMBDA e : ~isExpired(now, e))
    IN  [i \in 1 .. Len(live) |-> live[i].key]

keys(m) == [i \in 1 .. Len(m.store) |-> m.store[i].key]

values(m) == [i \in 1 .. Len(m.store) |-> m.store[i].data]

entries(m) ==
    [i \in 1 .. Len(m.store) |-> <<m.store[i].key, m.store[i].data>>]

\* A delete loop that catches what a callback throws and goes on.
RECURSIVE sweepDelete_continue(_, _, _)
sweepDelete_continue(m, expiredKeys, i) ==
    IF i > Len(expiredKeys)
    THEN [store |-> m.store, calls |-> m.calls, thrown |-> FALSE]
    ELSE LET d == delete(m, expiredKeys[i])
         IN  sweepDelete_continue([store |-> d.store, calls |-> d.calls],
                                  expiredKeys, i + 1)

\* The interval callback of startCleanup(): collect the expired keys, then
\* delete each; a callback that throws ends the loop.
RECURSIVE sweepDelete(_, _, _)
sweepDelete(m, expiredKeys, i) ==
    IF i > Len(expiredKeys)
    THEN [store |-> m.store, calls |-> m.calls, thrown |-> FALSE]
    ELSE LET d == delete(m, expiredKeys[i])
         IN  IF d.thrown
             THEN [store |-> d.store, calls |-> d.calls, thrown |-> TRUE]
             ELSE sweepDelete([store |-> d.store, calls |-> d.calls],
                              expiredKeys, i + 1)

\* A sweep that stops after the first expired entry.
sweep_first(m, t) ==
    LET expired == SelectSeq(m.store, LAMBDA e : isExpired(t, e))
        expiredKeys == [i \in 1 .. Len(expired) |-> expired[i].key]
    IN  sweepDelete(m, IF expiredKeys = << >> THEN << >>
                       ELSE <<expiredKeys[1]>>, 1)

sweep(m, t) ==
    LET expired == SelectSeq(m.store, LAMBDA e : isExpired(t, e))
        expiredKeys == [i \in 1 .. Len(expired) |-> expired[i].key]
    IN  sweepDelete(m, expiredKeys, 1)

----------------------------------------------------------------------------
(* Queue: the ring buffer of src/src/features/queue.ts. A queue is the     *)
(* record q of its fields; elements is a function on the slots             *)
(* 0 .. length-1, a slot never written (or cleared) holding Undefined.     *)

\* The default of the constructor's initialCapacity.
DefaultCapacity == 16
\* dequeue() shrinks only a queue whose capacity is above this.
ShrinkAbove == 16
\* The model makes at most MaxEnq enqueue calls on a queue.
MaxEnq == 18
\* The initialCapacity arguments tried: -1, 0 and 1 (the smallest queue), 3
\* (an odd capacity), the default, and 17 (just above the shrink limit).
InitialCapacities == {-1, 0, 1, 3, DefaultCapacity, 17}

Max(a, b) == IF a >= b THEN a ELSE b

\* new Array(n)
NewArray(n) == [i \in 0 .. n - 1 |-> Undefined]

\* elements[i] = x; a JS array written past its end grows to hold the slot.
ArraySet(arr, i, x) ==
    [j \in DOMAIN arr \cup {i} |-> IF j = i THEN x ELSE arr[j]]

\* elements[i]; a slot past the end reads undefined.
ArrayGet(arr, i) == IF i \in DOMAIN arr THEN arr[i] ELSE Undefined

\* constructor(initialCapacity)
newQueue(initialCapacity) ==
    [elements |-> NewArray(Max(1, initialCapacity)),
     head |-> 0, tail |-> 0, count |-> 0,
     capacity |-> Max(1, initialCapacity)]

\* resize() that copies the slots from index 0 instead of from head.
resize_nohead(q, newCapacity) ==
    [elements |-> [i \in 0 .. newCapacity - 1 |->
                      IF i < q.count THEN ArrayGet(q.elements, i)
                      ELSE Undefined],
     head |-> 0, tail |-> q.count, count |-> q.count,
     capacity |-> newCapacity]

\* resize(newCapacity): the live elements move to slots 0 .. count-1.
resize(q, newCapacity) ==
    [elements |-> [i \in 0 .. Max(newCapacity, q.count) - 1 |->
                      IF i < q.count
                      THEN ArrayGet(q.elements, (q.head + i) % q.capacity)
                      ELSE Undefined],
     head |-> 0, tail |-> q.count, count |-> q.count,
     capacity |-> newCapacity]

\* grow()
grow(q) == resize(q, q.capacity * 2)

\* shrink(): Math.floor(capacity / 2)
shrink(q) == resize(q, q.capacity \div 2)

\* A fullness test that takes head = tail for full.
isFull_wrap(q) == q.head = q.tail

\* this.count === this.capacity
isFull(q) == q.count = q.capacity

\* enqueue(element)
enqueue(q, element) ==
    LET q1 == IF isFull(q) THEN grow(q) ELSE q
    IN  [q1 EXCEPT !.elements = ArraySet(q1.elements, q1.tail, element),
                   !.tail = (q1.tail + 1) % q1.capacity,
                   !.count = q1.count + 1]

\* A shrink test at half the capacity instead of a quarter.
shouldShrink_half(q) ==
    q.count > 0 /\ 2 * q.count < q.capacity /\ q.capacity > ShrinkAbove

\* count > 0 && count < capacity / 4 && capacity > 16 (the division is exact
\* in JS, so count < capacity / 4 is 4 * count < capacity)
shouldShrink(q) ==
    q.count > 0 /\ 4 * q.count < q.capacity /\ q.capacity > ShrinkAbove

\* dequeue() without the test for the empty queue.
dequeue_unchecked(q) ==
    LET q1 == [q EXCEPT
                  !.elements = ArraySet(q.elements, q.head, Undefined),
                  !.head = (q.head + 1) % q.capacity,
                  !.count = q.count - 1]
    IN  [q   |-> IF shouldShrink(q1) THEN shrink(q1) ELSE q1,
         ret |-> ArrayGet(q.elements, q.head)]

\* dequeue(): the queue it leaves and the element it returns
dequeue(q) ==
    IF q.count = 0 THEN [q |-> q, ret |-> Undefined]
    ELSE LET q1 == [q EXCEPT
                       !.elements = ArraySet(q.elements, q.head, Undefined),
                       !.head = (q.head + 1) % q.capacity,
                       !.count = q.count - 1]
         IN  [q   |-> IF shouldShrink(q1) THEN shrink(q1) ELSE q1,
              ret |-> ArrayGet(q.elements, q.head)]

\* clear() that resets the indices and leaves the array as it is.
clearQueue_keep(q) ==
    [q EXCEPT !.head = 0, !.tail = 0, !.count = 0]

\* clear()
clearQueue(q) ==
    [q EXCEPT !.elements = NewArray(q.capacity),
              !.head = 0, !.tail = 0, !.count = 0]

\* toArray()
toArray(q) ==
    [i \in 1 .. q.count |->
        ArrayGet(q.elements, (q.head + (i - 1)) % q.capacity)]

\* peek(): the queue it leaves and the element it returns
peek(q) ==
    [q |-> q,
     ret |-> IF q.count = 0 THEN Undefined ELSE ArrayGet(q.elements, q.head)]

\* isEmpty() and the size getter
isEmpty(q) == q.count = 0

queueSize(q) == q.count

\* An iteration that does not wrap its index around the end of the array.
RECURSIVE iterate_nowrap(_, _)
iterate_nowrap(q, i) ==
    IF i >= q.count THEN << >>
    ELSE <<ArrayGet(q.elements, q.head + i)>> \o iterate_nowrap(q, i + 1)

\* [Symbol.iterator](): what a complete pass yields, from loop index i on
RECURSIVE iterate(_, _)
iterate(q, i) ==
    IF i >= q.count THEN << >>
    ELSE <<ArrayGet(q.elements, (q.head + i) % q.capacity)>>
            \o iterate(q, i + 1)

\* The queue object, as the record of its fields.
Q == [elements |-> elements, head |-> head, tail |-> tail, count |-> count,
      capacity |-> capacity]

SetQueue(q) ==
    /\ elements' = q.elements
    /\ head' = q.head
    /\ tail' = q.tail
    /\ count' = q.count
    /\ capacity' = q.capacity

\* new Queue(c)
InitQueue(capacities) ==
    /\ requested \in capacities
    /\ elements = newQueue(requested).elements
    /\ head = 0
    /\ tail = 0
    /\ count = 0
    /\ capacity = newQueue(requested).capacity
    /\ fifo = << >>
    /\ nEnq = 0
    /\ grows = 0
    /\ shrinks = 0

QueueIdle == InitQueue({DefaultCapacity})

----------------------------------------------------------------------------
(* CooldownManager: the map of src/src/features/cooldown.ts. The machine   *)
(* state is c = [cooldowns, timers]: the Map<string, number> as a function *)
(* from the keys present to their expiry, and the bag of the setTimeout    *)
(* callbacks scheduled and not yet run, each [key, due].                   *)

\* The keys the callers of the cooldown manager use.
CooldownKeys == {"u1", "u2"}
\* The durationMs arguments the callers pass, in clock units.
Durations == {1, 2}
\* The model schedules a timer only while fewer than MaxTimers are pending.
MaxTimers == 3

\* !expiry: undefined is falsy, and so is the number 0.
falsy(expiry) == expiry = Undefined \/ expiry = 0

\* this.cooldowns.get(key)
CooldownGet(cd, key) == IF key \in DOMAIN cd THEN cd[key] ELSE Undefined

\* this.cooldowns.set(key, expiresAt)
CooldownPut(cd, key, expiresAt) ==
    [k \in DOMAIN cd \cup {key} |-> IF k = key THEN expiresAt ELSE cd[k]]

\* this.cooldowns.delete(key)
CooldownDelete(cd, key) == [k \in DOMAIN cd \ {key} |-> cd[k]]

\* Date.now() >= expiry
pastExpiry_ge(t, expiry) == t >= expiry

\* Date.now() > expiry
pastExpiry(t, expiry) == t > expiry

\* hasCooldown(key) that reports a stale entry and leaves it in the map.
hasCooldown_keep(c, key, t) ==
    LET expiry == CooldownGet(c.cooldowns, key)
    IN  [cooldowns |-> c.cooldowns, timers |-> c.timers,
         ret |-> ~falsy(expiry) /\ ~pastExpiry(t, expiry)]

\* hasCooldown(key) at clock reading t
hasCooldown(c, key, t) ==
    LET expiry == CooldownGet(c.cooldowns, key)
    IN  IF falsy(expiry)
        THEN [cooldowns |-> c.cooldowns, timers |-> c.timers, ret |-> FALSE]
        ELSE IF pastExpiry(t, expiry)
        THEN [cooldowns |-> CooldownDelete(c.cooldowns, key),
              timers |-> c.timers, ret |-> FALSE]
        ELSE [cooldowns |-> c.cooldowns, timers |-> c.timers, ret |-> TRUE]

\* A setCooldown that schedules no timer.
setTimeout_none(tm, key, durationMs, t) == tm

\* setTimeout(() => this.cooldowns.delete(key), durationMs) at clock reading t
setTimeout(tm, key, durationMs, t) ==
    tm (+) SetToBag({[key |-> key, due |-> t + durationMs]})

\* A test of setCooldown that lets every call through.
onCooldown_never(c, key, t) ==
    [cooldowns |-> hasCooldown(c, key, t).cooldowns,
     timers |-> c.timers, ret |-> FALSE]

\* if (this.hasCooldown(key)) return false
onCooldown(c, key, t) == hasCooldown(c, key, t)

\* setCooldown(key, durationMs): t is the clock reading of hasCooldown, t2 the
\* later reading that expiresAt is computed from.
setCooldown(c, key, durationMs, t, t2) ==
    LET h == onCooldown(c, key, t)
    IN  IF h.ret
        THEN [cooldowns |-> h.cooldowns, timers |-> h.timers, ret |-> FALSE]
        ELSE [cooldowns |-> CooldownPut(h.cooldowns, key, t2 + durationMs),
              timers |-> setTimeout(h.timers, key, durationMs, t2),
              ret |-> TRUE]

\* remaining > 0 ? remaining : 0, without the test
clampRemaining_raw(remaining) == remaining

\* remaining > 0 ? remaining : 0
clampRemaining(remaining) == IF remaining > 0 THEN remaining ELSE 0

\* getRemaining(key) at clock reading t
getRemaining(c, key, t) ==
    LET expiry == CooldownGet(c.cooldowns, key)
    IN  [cooldowns |-> c.cooldowns, timers |-> c.timers,
         ret |-> IF falsy(expiry) THEN 0 ELSE clampRemaining(expiry - t)]

\* reset(key): Map.delete returns whether the key was there
reset(c, key) ==
    [cooldowns |-> CooldownDelete(c.cooldowns, key), timers |-> c.timers,
     ret |-> key \in DOMAIN c.cooldowns]

\* new Map(), and the map after Map.clear()
EmptyMap == [k \in {} |-> Undefined]

\* clear()
clearCooldowns(c) == [cooldowns |-> EmptyMap, timers |-> c.timers]

\* The callback of a timer: () => this.cooldowns.delete(key)
timerCallback(c, tm) ==
    [cooldowns |-> CooldownDelete(c.cooldowns, tm.key),
     timers |-> c.timers (-) SetToBag({tm})]

\* getKeys() and size()
getKeys(c) == DOMAIN c.cooldowns

cooldownSize(c) == Cardinality(DOMAIN c.cooldowns)

\* The manager, as the record of its state.
CD == [cooldowns |-> cooldowns, timers |-> timers]

NotGranted == [set |-> FALSE, at |-> 0, until |-> 0, kept |-> FALSE]

\* new CooldownManager(): an empty map, no timer.
CooldownIdle ==
    /\ cooldowns = EmptyMap
    /\ timers = EmptyBag
    /\ grant = [k \in CooldownKeys |-> NotGranted]

----------------------------------------------------------------------------
(* History kept beside the program state.                                  *)

NotWritten == [live |-> FALSE, v |-> Undefined, until |-> 0]

\* written, after an operation that leaves the map as s: a key that left the
\* map is forgotten.
Forget(w, s) == [k \in DOMAIN w |-> IF MapHas(s, k) THEN w[k] ELSE NotWritten]

\* The machine state an operation starts from: the map, no onExpire call yet.
M0 == [store |-> store, calls |-> << >>]

----------------------------------------------------------------------------
(* The state after construction, and the operations.                       *)

ScenarioIdle == pc = 0 /\ obs = << >> /\ stamps = << >>

\* new KaoriStateStore(options): an empty map, the interval armed.
InitStore(maxSizes, ttls, callbacks) ==
    /\ store = << >>
    /\ options \in [maxSize : maxSizes, ttl : ttls, onExpire : callbacks]
    /\ cleanupActive = TRUE
    /\ now = 0
    /\ written = [k \in AllKeys |-> NotWritten]

Init ==
    /\ InitStore(1 .. MaxMaxSize, {StoreTTL}, {"returns"})
    /\ ScenarioIdle
    /\ QueueIdle
    /\ CooldownIdle

\* The clock advances between two operations.
Tick ==
    /\ now < MaxTime
    /\ now' = now + 1
    /\ UNCHANGED <<store, options, cleanupActive, written, scenVars, queueVars,
                   cooldownVars>>

\* get(key) at clock reading t. The clock may advance between the expiry test
\* and the write of lastAccessed, which reads t2.
DoGet(key, t, t2) ==
    LET r == get(M0, key, t, t2)
    IN  /\ store' = r.store
        /\ now' = IF r.ret # Undefined THEN t2 ELSE t
        /\ written' = Forget(written, r.store)
        /\ UNCHANGED <<options, cleanupActive>>

CallGet ==
    /\ \E key \in Keys : \E t2 \in {now, now + 1} :
          /\ t2 <= MaxTime
          /\ DoGet(key, now, t2)
    /\ UNCHANGED <<scenVars, queueVars, cooldownVars>>

\* set(key, value, customTTL) at clock reading t
DoSet(key, value, customTTL, t) ==
    LET r == set(M0, key, value, customTTL, t)
    IN  /\ store' = r.store
        /\ now' = t
        /\ written' = IF r.thrown THEN Forget(written, r.store)
                       ELSE [Forget(written, r.store) EXCEPT ![key] =
                          [live |-> TRUE, v |-> value,
                           until |-> t + (IF customTTL = NoTTL
                                          THEN options.ttl ELSE customTTL)]]
        /\ UNCHANGED <<options, cleanupActive>>

CallSet ==
    /\ \E key \in Keys : \E a \in SetArgs : DoSet(key, a[1], a[2], now)
    /\ UNCHANGED <<scenVars, queueVars, cooldownVars>>

\* has(key)
CallHas ==
    /\ \E key \in Keys :
          LET r == has(M0, key, now)
          IN  /\ store' = r.store
              /\ written' = Forget(written, r.store)
    /\ UNCHANGED <<options, cleanupActive, now, scenVars, queueVars,
                   cooldownVars>>

\* delete(key)
CallDelete ==
    /\ \E key \in Keys :
          LET r == delete(M0, key)
          IN  /\ store' = r.store
              /\ written' = Forget(written, r.store)
    /\ UNCHANGED <<options, cleanupActive, now, scenVars, queueVars,
                   cooldownVars>>

\* clear()
CallClear ==
    /\ LET r == clear(M0)
       IN  /\ store' = r.store
           /\ written' = Forget(written, r.store)
    /\ UNCHANGED <<options, cleanupActive, now, scenVars, queueVars,
                   cooldownVars>>

\* A clearInterval that leaves the interval armed.
clearInterval_not(armed) == armed

\* clearInterval(this.cleanupInterval): the interval is armed no more,
\* whether or not it still was.
clearInterval(armed) == FALSE

\* destroy(): clearInterval, then clear(). armed tells whether the interval
\* of startCleanup is still armed at the call.
destroy(m, armed) ==
    [c \in {"cleanupActive"} |-> clearInterval(armed)] @@ clear(m)

CallDestroy ==
    /\ LET r == destroy(M0, cleanupActive)
       IN  /\ store' = r.store
           /\ cleanupActive' = r.cleanupActive
           /\ written' = Forget(written, r.store)
    /\ UNCHANGED <<options, now, scenVars, queueVars, cooldownVars>>

\* The interval callback runs, between two caller operations. The clock of the
\* model has no unit, so a tick of the interval may come at any reading.
SweepTick ==
    /\ cleanupActive
    /\ LET r == sweep(M0, now)
       IN  /\ store' = r.store
           /\ written' = Forget(written, r.store)
    /\ UNCHANGED <<options, cleanupActive, now, scenVars, queueVars,
                   cooldownVars>>

\* The store while it is in service: every operation but destroy().
Next ==
    \/ Tick
    \/ CallGet
    \/ CallSet
    \/ CallHas
    \/ CallDelete
    \/ CallClear
    \/ SweepTick

Spec == Init /\ [][Next]_vars

\* The defaults of the constructor: maxSize ?? 1000, ttl ?? 3600000.
DefaultMaxSize == 1000
DefaultTTL == 3600000

\* constructor(options): this.options, from the StateOptions record passed;
\* a field the record does not have is undefined. No field is validated.
constructor(o) ==
    [maxSize  |-> IF "maxSize" \in DOMAIN o THEN o.maxSize ELSE DefaultMaxSize,
     ttl      |-> IF "ttl" \in DOMAIN o THEN o.ttl ELSE DefaultTTL,
     onExpire |-> IF "onExpire" \in DOMAIN o THEN o.onExpire ELSE "none"]

\* The StateOptions passed to defineState: every combination of an invalid
\* or the smallest valid maxSize with a negative or a positive ttl, and the
\* options with only the id.
ConfigInputs ==
    {[id |-> "s", maxSize |-> n, ttl |-> t, onExpire |-> "returns"] :
        n \in {-1, 0, 1}, t \in {-1, 1}}
    \cup {[id |-> "s"]}

\* defineState(o), for each of ConfigInputs
ConfigInit ==
    /\ store = << >>
    /\ options \in {constructor(o) : o \in ConfigInputs}
    /\ cleanupActive = TRUE
    /\ now = 0
    /\ written = [k \in AllKeys |-> NotWritten]
    /\ ScenarioIdle
    /\ QueueIdle
    /\ CooldownIdle

ConfigSpec == ConfigInit /\ [][Next]_vars

\* A store whose onExpire throws, on every call or for the key "b" only.
ThrowInit ==
    /\ InitStore(1 .. MaxMaxSize, {StoreTTL}, {"throws", "throwsOnB"})
    /\ ScenarioIdle
    /\ QueueIdle
    /\ CooldownIdle

ThrowSpec == ThrowInit /\ [][Next]_vars

\* The store through its whole life: destroy() may be called at any point,
\* any number of times, and the store used afterwards.
LifecycleNext ==
    \/ Tick
    \/ CallGet
    \/ CallSet
    \/ CallHas
    \/ CallDelete
    \/ CallClear
    \/ CallDestroy
    \/ SweepTick

LifecycleSpec == Init /\ [][LifecycleNext]_vars

----------------------------------------------------------------------------
(* The LRU scenario: on a store with maxSize = 2 and ttl = 100000, the     *)
(* calls set("a",1), set("b",2), get("a"), set("c",3), and then get("a"),  *)
(* get("b"), get("c") to observe the outcome. Before each call the clock   *)
(* advances by one of Delays. stamps records the clock value each call     *)
(* stamped (for a get, the one it wrote to lastAccessed).                  *)

ScenarioInit ==
    /\ InitStore({2}, {100000}, {"returns"})
    /\ ScenarioIdle
    /\ QueueIdle
    /\ CooldownIdle

ScenarioSet(at, key, value) ==
    /\ pc = at
    /\ \E d \in Delays :
          /\ DoSet(key, value, NoTTL, now + d)
          /\ stamps' = Append(stamps, now + d)
    /\ pc' = pc + 1
    /\ UNCHANGED <<obs, queueVars, cooldownVars>>

ScenarioGet(at, key, observed) ==
    /\ pc = at
    /\ \E d \in Delays : \E t2 \in {now + d, now + d + 1} :
          /\ DoGet(key, now + d, t2)
          /\ stamps' = Append(stamps, t2)
          /\ obs' = IF observed
                    THEN Append(obs, get(M0, key, now + d, t2).ret)
                    ELSE obs
    /\ pc' = pc + 1
    /\ UNCHANGED <<queueVars, cooldownVars>>

ScenarioSetA == ScenarioSet(0, "a", 1)
ScenarioSetB == ScenarioSet(1, "b", 2)
ScenarioGetA == ScenarioGet(2, "a", FALSE)
ScenarioSetC == ScenarioSet(3, "c", 3)
ScenarioObserveA == ScenarioGet(4, "a", TRUE)
ScenarioObserveB == ScenarioGet(5, "b", TRUE)
ScenarioObserveC == ScenarioGet(6, "c", TRUE)

ScenarioNext ==
    \/ ScenarioSetA
    \/ ScenarioSetB
    \/ ScenarioGetA
    \/ ScenarioSetC
    \/ ScenarioObserveA
    \/ ScenarioObserveB
    \/ ScenarioObserveC
    \/ SweepTick

ScenarioSpec == ScenarioInit /\ [][ScenarioNext]_vars

ScenarioDone == pc = 7

\* No call of the scenario came after an entry's time to live had elapsed
\* ("a" was written first and get() does not extend expiresAt).
WithinTTL == stamps # << >> /\ now <= stamps[1] + options.ttl

----------------------------------------------------------------------------
(* The queue's operations. The element enqueued is the number of the       *)
(* enqueue call, so that every element of a run is distinct and a lost, a  *)
(* duplicated or a misplaced element shows.                                *)

StoreIdle ==
    /\ InitStore({1}, {StoreTTL}, {"returns"})
    /\ ScenarioIdle

QueueInit ==
    /\ InitQueue(InitialCapacities)
    /\ StoreIdle
    /\ CooldownIdle

Enqueue ==
    /\ nEnq < MaxEnq
    /\ SetQueue(enqueue(Q, nEnq + 1))
    /\ nEnq' = nEnq + 1
    /\ fifo' = Append(fifo, nEnq + 1)
    /\ grows' = IF isFull(Q) THEN grows + 1 ELSE grows
    /\ UNCHANGED <<requested, shrinks, storeVars, scenVars, cooldownVars>>

Dequeue ==
    /\ SetQueue(dequeue(Q).q)
    /\ fifo' = IF fifo = << >> THEN fifo ELSE Tail(fifo)
    /\ shrinks' = IF dequeue(Q).q.capacity # capacity
                  THEN shrinks + 1 ELSE shrinks
    /\ UNCHANGED <<requested, nEnq, grows, storeVars, scenVars,
                   cooldownVars>>

ClearQueue ==
    /\ SetQueue(clearQueue(Q))
    /\ fifo' = << >>
    /\ UNCHANGED <<requested, nEnq, grows, shrinks, storeVars, scenVars,
                   cooldownVars>>

QueueNext ==
    \/ Enqueue
    \/ Dequeue
    \/ ClearQueue

QueueSpec == QueueInit /\ [][QueueNext]_vars

----------------------------------------------------------------------------
(* The cooldown manager's operations. The clock is the host clock, now;    *)
(* a timer's callback may run at any point between two caller operations   *)
(* once the clock has reached the timer's due time, and may run late.      *)

CooldownInit ==
    /\ CooldownIdle
    /\ StoreIdle
    /\ QueueIdle

\* setCooldown(key, durationMs); the clock may advance between the reading of
\* hasCooldown and the one expiresAt is computed from.
SetCooldown ==
    /\ \E key \in CooldownKeys : \E d \in Durations : \E t2 \in {now, now + 1} :
          LET r == setCooldown(CD, key, d, now, t2)
          IN  /\ t2 <= MaxTime
              /\ r.ret => BagCardinality(timers) < MaxTimers
              /\ cooldowns' = r.cooldowns
              /\ timers' = r.timers
              /\ now' = IF r.ret THEN t2 ELSE now
              /\ grant' = IF r.ret
                          THEN [grant EXCEPT ![key] =
                                   [set |-> TRUE, at |-> t2, until |-> t2 + d,
                                    kept |-> TRUE]]
                          ELSE grant
    /\ UNCHANGED <<store, options, cleanupActive, written, scenVars, queueVars>>

\* hasCooldown(key)
HasCooldown ==
    /\ \E key \in CooldownKeys : cooldowns' = hasCooldown(CD, key, now).cooldowns
    /\ UNCHANGED <<timers, grant, storeVars, scenVars, queueVars>>

\* reset(key)
Reset ==
    /\ \E key \in CooldownKeys :
          /\ cooldowns' = reset(CD, key).cooldowns
          /\ grant' = [grant EXCEPT ![key].kept = FALSE]
    /\ UNCHANGED <<timers, storeVars, scenVars, queueVars>>

\* clear()
ClearCooldowns ==
    /\ cooldowns' = clearCooldowns(CD).cooldowns
    /\ grant' = [k \in CooldownKeys |-> [grant[k] EXCEPT !.kept = FALSE]]
    /\ UNCHANGED <<timers, storeVars, scenVars, queueVars>>

\* The pending timer tm, its delay elapsed, runs its callback.
Fire(tm) ==
    /\ BagIn(tm, timers)
    /\ now >= tm.due
    /\ cooldowns' = timerCallback(CD, tm).cooldowns
    /\ timers' = timerCallback(CD, tm).timers
    /\ UNCHANGED <<grant, storeVars, scenVars, queueVars>>

\* A pending timer whose delay has elapsed runs its callback.
TimerFires == \E tm \in BagToSet(timers) : Fire(tm)

CooldownNext ==
    \/ Tick
    \/ SetCooldown
    \/ HasCooldown
    \/ Reset
    \/ ClearCooldowns
    \/ TimerFires

\* The handle setInterval and setTimeout return: the host counts a timer as
\* pending work for as long as its handle is ref'd, which it is when made.
newTimer == [refd |-> TRUE]

\* handle.unref()
unref(handle) == [handle EXCEPT !.refd = FALSE]

\* this.cleanupInterval of startCleanup(): unref'd right after setInterval.
cleanupInterval == unref(newTimer)

\* The handle of setCooldown's setTimeout, which the code drops as returned.
cooldownTimeout == newTimer

\* The host keeps the process alive: an armed timer has a ref'd handle.
KeepsAlive ==
    \/ cleanupActive /\ cleanupInterval.refd
    \/ timers # EmptyBag /\ cooldownTimeout.refd

CooldownSpec == CooldownInit /\ [][CooldownNext]_vars

\* Time passes while a timer is pending: the clock goes on to the timer's due
\* time whatever the callers do (the bound MaxTime is on the callers' clock
\* readings, not on the delays that are still running).
Elapse ==
    /\ \E tm \in BagToSet(timers) : now < tm.due
    /\ now' = now + 1
    /\ UNCHANGED <<store, options, cleanupActive, written, scenVars, queueVars,
                   cooldownVars>>

CooldownLiveNext ==
    \/ CooldownNext
    \/ Elapse

\* The timers a run can schedule.
Timers ==
    [key : CooldownKeys,
     due : 0 .. MaxTime + (CHOOSE d \in Durations : \A e \in Durations : e <= d)]

\* The host's timer scheduling: time does not stop while a delay is running,
\* and the event loop runs the callback of every timer whose delay has
\* elapsed.
TimerFairness ==
    /\ WF_vars(Elapse)
    /\ \A tm \in Timers : WF_vars(Fire(tm))

CooldownLiveSpec == CooldownInit /\ [][CooldownLiveNext]_vars /\ TimerFairness

----------------------------------------------------------------------------
(* Claims about KaoriStateStore. A claim about what a call returns or does *)
(* is stated of the call made from every reachable state, with every       *)
(* argument of the model.                                                  *)

NewKey(key) == ~MapHas(store, key)

\* The positions of the least recently used entry: minimum lastAccessed, and
\* on a tie the first in the map's iteration order.
IsLRU(i) ==
    /\ \A j \in 1 .. Len(store) :
          store[i].lastAccessed <= store[j].lastAccessed
    /\ \A j \in 1 .. i - 1 :
          store[j].lastAccessed > store[i].lastAccessed

\* The (key, value) pairs of the entries of the map that are gone from s2.
Removed(s2) ==
    {<<store[i].key, store[i].data>> :
        i \in {j \in 1 .. Len(store) : ~MapHas(s2, store[j].key)}}

\* The onExpire calls of r are one call per entry r removed, each with the
\* entry's key and the value last stored under it.
FiredOncePerRemoval(r) ==
    /\ Len(r.calls) = Cardinality(Removed(r.store))
    /\ {r.calls[i] : i \in 1 .. Len(r.calls)} = Removed(r.store)
    /\ \A i \in 1 .. Len(r.calls) :
          /\ written[r.calls[i][1]].live
          /\ written[r.calls[i][1]].v = r.calls[i][2]

\* C1: for a store created with maxSize = N (N >= 1), size() <= N in every
\* reachable state, whatever strings the keys are (the empty string
\* included).
C1_SizeBound == Len(store) <= options.maxSize

\* C2: set(key, v) with key not present and size() = maxSize removes exactly
\* one existing entry before the insert, the one with the minimum
\* lastAccessed (on ties the first in insertion order); below maxSize nothing
\* is removed, so N+1 distinct keys into an empty store of maxSize N cause
\* exactly one eviction.
C2_EvictsTheLRU ==
    \A key \in Keys : \A a \in SetArgs :
        LET r == set(M0, key, a[1], a[2], now)
        IN  /\ (NewKey(key) /\ Len(store) = options.maxSize) =>
                  \E i \in 1 .. Len(store) :
                      /\ IsLRU(i)
                      /\ MapKeys(r.store) =
                            (MapKeys(store) \ {store[i].key}) \cup {key}
                      /\ Len(r.store) = Len(store)
            /\ (NewKey(key) /\ Len(store) < options.maxSize) =>
                  /\ MapKeys(r.store) = MapKeys(store) \cup {key}
                  /\ Len(r.store) = Len(store) + 1

\* What the LRU scenario is said to end with: b evicted, get("a") = 1,
\* get("b") absent, get("c") = 3.
ScenarioEvictedB ==
    /\ obs = <<1, Undefined, 3>>
    /\ MapKeys(store) = {"a", "c"}

\* C3 as claimed: the scenario ends with b evicted for every assignment of
\* clock readings to the calls that stays within the TTL, equal readings
\* included.
C3_ScenarioAlwaysEvictsB ==
    (ScenarioDone /\ WithinTTL) => ScenarioEvictedB

\* C3, amended: within the TTL the scenario ends with b evicted when
\* get("a") stamped a later clock value than set("b") did; when both stamped
\* the same value it is a that is evicted, and get("a") is absent while
\* get("b") = 2 and get("c") = 3.
C3_ScenarioEvictsBWhenGetIsLater ==
    (ScenarioDone /\ WithinTTL) =>
        /\ stamps[3] > stamps[2] => ScenarioEvictedB
        /\ stamps[3] = stamps[2] =>
              /\ obs = <<Undefined, 2, 3>>
              /\ MapKeys(store) = {"b", "c"}

C3_Witness ==
    /\ ScenarioDone
    /\ WithinTTL
    /\ stamps[3] > stamps[2]
    /\ stamps[4] = stamps[3]
    /\ obs = <<1, Undefined, 3>>

\* C4 as claimed: an entry written at t0 with effective ttl T, and still in
\* the map, is reported present by get and has at every time t < t0 + T and
\* absent at every time t >= t0 + T.
C4_AbsentFromExpiryTime ==
    \A key \in Keys :
        written[key].live =>
            /\ get(M0, key, now, now).ret # Undefined
                  <=> now < written[key].until
            /\ has(M0, key, now).ret <=> now < written[key].until

\* C4, amended: such an entry is reported present by get and has at every
\* time t <= t0 + T and absent at every time t > t0 + T.
C4_PresentThroughExpiryTime ==
    \A key \in Keys :
        written[key].live =>
            /\ get(M0, key, now, now).ret # Undefined
                  <=> now <= written[key].until
            /\ has(M0, key, now).ret <=> now <= written[key].until

C4_Witness ==
    \E key \in Keys :
        /\ written[key].live
        /\ written[key].until = now
        /\ now > 0
        /\ has(M0, key, now).ret
        /\ get(M0, key, now, now).ret = written[key].v

\* C5: with an onExpire that returns, every operation invokes it exactly once
\* for each entry it removes (delete, LRU eviction, lazy expiry in get and
\* has, sweep, clear, destroy), with the entry's key and last stored value,
\* and never for an entry that stays (an overwritten key, an absent key).
C5_OnExpireOncePerRemoval ==
    options.onExpire = "returns" =>
        /\ \A key \in Keys :
              /\ FiredOncePerRemoval(delete(M0, key))
              /\ FiredOncePerRemoval(get(M0, key, now, now))
              /\ FiredOncePerRemoval(has(M0, key, now))
              /\ \A a \in SetArgs :
                    FiredOncePerRemoval(set(M0, key, a[1], a[2], now))
        /\ FiredOncePerRemoval(evictLRU(M0))
        /\ FiredOncePerRemoval(sweep(M0, now))
        /\ FiredOncePerRemoval(clear(M0))
        /\ FiredOncePerRemoval(destroy(M0, cleanupActive))

C5_Witness ==
    /\ Len(store) = 2
    /\ Len(sweep(M0, now).calls) = 1
    /\ Len(clear(M0).calls) = 2
    /\ \E key \in Keys :
          /\ NewKey(key)
          /\ Len(set(M0, key, 1, NoTTL, now).calls) = 1
    /\ \E key \in Keys :
          /\ ~NewKey(key)
          /\ set(M0, key, 2, 0, now).calls = << >>
          /\ Len(get(M0, key, now, now).calls) = 1

\* C6: after set(k, v), get(k) returns v, the value most recently set for k,
\* as long as k's time to live has not elapsed and k has not been removed;
\* operations on other keys that leave k in the map do not change it.
C6_GetReturnsLastSet ==
    \A key \in Keys :
        (written[key].live /\ now <= written[key].until) =>
            \A t2 \in {now, now + 1} :
                get(M0, key, now, t2).ret = written[key].v

C6_Witness ==
    \E key \in Keys :
        /\ written[key].live
        /\ written[key].until = now
        /\ Len(store) = 2
        /\ store[1].key = key
        /\ store[1].lastAccessed < now
        /\ get(M0, key, now, now).ret = 1

\* What destroy() does from the current state, and a second destroy() right
\* after it: the first empties the store, cancels the sweep and fires
\* onExpire once for each entry present; the second fires no further
\* callback and changes nothing.
DestroyTwice ==
    LET d  == destroy(M0, cleanupActive)
        d2 == destroy([store |-> d.store, calls |-> d.calls], d.cleanupActive)
    IN  /\ d.store = << >>
        /\ ~d.cleanupActive
        /\ Len(d.calls) = Len(store)
        /\ FiredOncePerRemoval(d)
        /\ d2.store = << >>
        /\ ~d2.cleanupActive
        /\ d2.calls = d.calls

\* C15: destroy() cancels the periodic sweep and empties the store, firing
\* onExpire once for each entry present; a repeated destroy() fires no
\* further callback; once the sweep is cancelled it stays cancelled and no
\* step is a sweep tick, so that an expired entry written after destroy()
\* stays in the map until a caller's operation removes it. (Every state has
\* a step that changes it, so the first conjunct is checked of every
\* reachable state.)
C15_DestroyCancelsSweep ==
    [][/\ DestroyTwice
       /\ ~cleanupActive => (~cleanupActive' /\ ~SweepTick)]_vars

C15_Witness ==
    /\ ~cleanupActive
    /\ Len(store) = 2
    /\ Len(sweep(M0, now).calls) = 1
    /\ Len(destroy(M0, cleanupActive).calls) = 2

\* C16: a store created with maxSize <= 0 or with a negative ttl is rejected
\* at construction: no such store comes to hold an entry.
C16_InvalidConfigRejected ==
    store # << >> => (options.maxSize >= 1 /\ options.ttl >= 0)

\* get(key) succeeding at clock reading t2, and what it leaves: the entry of
\* key with lastAccessed = t2, everything else as it was, no callback.
Refreshes(key, t2) ==
    LET g == get(M0, key, now, t2)
        i == IndexOf(store, key)
    IN  /\ g.ret = store[i].data
        /\ g.store = [store EXCEPT ![i].lastAccessed = t2]
        /\ g.calls = << >>

\* Every entry but key's was last accessed before t2.
OthersOlder(key, t2) ==
    \A j \in 1 .. Len(store) :
        store[j].key # key => store[j].lastAccessed < t2

\* After get(key), no set() of a new key into the full store removes key.
SurvivesEviction(key, t2) ==
    LET g == get(M0, key, now, t2)
    IN  \A k2 \in Keys \ MapKeys(store) : \A a \in SetArgs :
            Len(g.store) >= options.maxSize =>
                MapHas(set([store |-> g.store, calls |-> << >>],
                           k2, a[1], a[2], t2).store, key)

Served(key) == MapHas(store, key) /\ now <= MapGet(store, key).expiresAt

\* C17 as claimed: a successful get(k) sets k's lastAccessed to the current
\* time and changes nothing else, and if every other entry's lastAccessed is
\* strictly older, the next capacity-triggered eviction does not remove k.
C17_GetProtectsFromEviction ==
    \A key \in Keys : \A t2 \in {now, now + 1} :
        Served(key) =>
            /\ Refreshes(key, t2)
            /\ OthersOlder(key, t2) => SurvivesEviction(key, t2)

\* C17, amended: the same, for a store that holds at least one other entry
\* (the eviction from a store whose only entry is k removes k, unless k is
\* the empty string).
C17_GetProtectsAmongOthers ==
    \A key \in Keys : \A t2 \in {now, now + 1} :
        Served(key) =>
            /\ Refreshes(key, t2)
            /\ (Len(store) >= 2 /\ OthersOlder(key, t2)) =>
                  SurvivesEviction(key, t2)

C17_Witness ==
    /\ Len(store) = 2
    /\ options.maxSize = 2
    /\ IsLRU(1)
    /\ store[2].key # ""
    /\ Served(store[1].key)
    /\ OthersOlder(store[1].key, now)
    /\ \E k2 \in Keys \ MapKeys(store) :
          /\ ~MapHas(set(M0, k2, 1, NoTTL, now).store, store[1].key)
          /\ MapKeys(set([store |-> get(M0, store[1].key, now, now).store,
                          calls |-> << >>], k2, 1, NoTTL, now).store)
                = {store[1].key, k2}

\* C18: get never returns the value of, and has never returns true for, an
\* entry whose expiresAt is strictly less than the current time; such an
\* access removes that entry and no other, fires onExpire for it once, and
\* reports it absent.
C18_NoExpiredEntryServed ==
    \A key \in Keys :
        (MapHas(store, key) /\ MapGet(store, key).expiresAt < now) =>
            LET g == get(M0, key, now, now)
                h == has(M0, key, now)
                fired == << <<key, MapGet(store, key).data>> >>
            IN  /\ g.ret = Undefined
                /\ g.store = MapDelete(store, key)
                /\ g.calls = fired
                /\ h.ret = FALSE
                /\ h.store = MapDelete(store, key)
                /\ h.calls = fired

C18_Witness ==
    /\ Len(store) = 2
    /\ store[1].expiresAt < now
    /\ store[2].expiresAt >= now
    /\ get(M0, store[1].key, now, now).ret = Undefined
    /\ get(M0, store[1].key, now, now).store = <<store[2]>>
    /\ ~has(M0, store[1].key, now).ret
    /\ has(M0, store[2].key, now).ret

\* C21: set(k, v) on a key already in the map, even when size() = maxSize,
\* removes no key, fires no onExpire, leaves size() and every other entry as
\* they were, and writes k's data = v, expiresAt = now + effective ttl and
\* lastAccessed = now.
C21_OverwriteNeverEvicts ==
    \A key \in MapKeys(store) \cap Keys : \A a \in SetArgs :
        LET r == set(M0, key, a[1], a[2], now)
            i == IndexOf(store, key)
        IN  /\ ~r.thrown
            /\ r.calls = << >>
            /\ size(r) = size(M0)
            /\ r.store = [store EXCEPT ![i] =
                              StateEntry(key, a[1], now + effectiveTTL(a[2]),
                                         now)]

C21_Witness ==
    /\ options.maxSize = 2
    /\ Len(store) = 2
    /\ IsLRU(2)
    /\ store[1].expiresAt < now
    /\ store[1].data = 2
    /\ set(M0, store[1].key, 1, NoTTL, now).store =
          <<StateEntry(store[1].key, 1, now + StoreTTL, now), store[2]>>

\* The entries of the map whose expiresAt is before the clock reading, and
\* the others, each in the map's order.
ExpiredEntries == SelectSeq(store, LAMBDA e : e.expiresAt < now)

LiveEntries == SelectSeq(store, LAMBDA e : ~(e.expiresAt < now))

\* C22: a sweep tick, with an onExpire that returns, removes exactly the
\* entries whose expiresAt is before the tick's clock reading, fires onExpire
\* once for each and leaves every other entry as it was; a tick runs between
\* two caller operations, each of which is one step.
C22_SweepRemovesTheExpired ==
    LET r == sweep(M0, now)
    IN  /\ ~r.thrown
        /\ r.store = LiveEntries
        /\ r.calls = [i \in 1 .. Len(ExpiredEntries) |->
                         <<ExpiredEntries[i].key, ExpiredEntries[i].data>>]
        /\ FiredOncePerRemoval(r)

C22_Witness ==
    /\ cleanupActive
    /\ Len(store) = 2
    /\ ExpiredEntries = <<store[2]>>
    /\ LiveEntries = <<store[1]>>
    /\ sweep(M0, now).store = <<store[1]>>
    /\ sweep(M0, now).calls = <<<<store[2].key, store[2].data>>>>

\* C23: has(k) on a present, unexpired key returns true and leaves every
\* entry as it was, so that a key only ever probed with has is still the one
\* evicted by the next set() of a new key into the full store when its
\* lastAccessed is the minimum (on a tie, when it is the first of the
\* minimal ones).
C23_HasKeepsTheVictim ==
    \A i \in 1 .. Len(store) :
        (store[i].key \in Keys /\ Served(store[i].key)) =>
            LET h == has(M0, store[i].key, now)
            IN  /\ h.ret = TRUE
                /\ h.store = store
                /\ h.calls = << >>
                /\ (IsLRU(i) /\ Len(store) >= options.maxSize) =>
                      \A k2 \in Keys \ MapKeys(store) :
                          ~MapHas(set([store |-> h.store, calls |-> << >>],
                                      k2, 1, NoTTL, now).store, store[i].key)

\* C24: size(), keys(), values() and entries() report every entry in the
\* map, those whose expiresAt has passed included, in the map's order and
\* agreeing with each other in length (= size()) and order; none of them
\* changes the map or fires onExpire.
C24_RawAccessors ==
    /\ size(M0) = Len(store)
    /\ Len(keys(M0)) = size(M0)
    /\ Len(values(M0)) = size(M0)
    /\ Len(entries(M0)) = size(M0)
    /\ \A i \in 1 .. Len(store) :
          /\ keys(M0)[i] = store[i].key
          /\ values(M0)[i] = store[i].data
          /\ entries(M0)[i] = <<keys(M0)[i], values(M0)[i]>>

C24_Witness ==
    /\ Len(store) = 2
    /\ store[1].expiresAt < now
    /\ store[2].expiresAt >= now
    /\ keys(M0) = <<store[1].key, store[2].key>>
    /\ values(M0) = <<2, 1>>
    /\ entries(M0) = <<<<store[1].key, 2>>, <<store[2].key, 1>>>>

\* The map with every expiresAt replaced by x.
WithExpiry(s, x) == [i \in 1 .. Len(s) |-> [s[i] EXCEPT !.expiresAt = x]]

\* Entry i is the least recently used and unexpired, entry j is expired and
\* still in the map, and the map is full.
UnexpiredVictim(i, j) ==
    /\ Len(store) = options.maxSize
    /\ IsLRU(i)
    /\ ~isExpired(now, store[i])
    /\ isExpired(now, store[j])

\* C29: the victim of an eviction is chosen by minimum lastAccessed alone,
\* whatever the expiresAt of the entries: set() of a new key into a full map
\* evicts the least recently used entry though it is unexpired and keeps an
\* expired entry with a newer lastAccessed, and get() of the victim's key
\* then finds nothing; had a sweep tick run before the set, the expired
\* entry would be the one removed and get() would return the other's value.
C29_EvictionIgnoresExpiry ==
    /\ \A x \in 0 .. MaxTime : oldestOf(WithExpiry(store, x)) = oldestOf(store)
    /\ \A i, j \in 1 .. Len(store) : \A key \in Keys : \A a \in SetArgs :
          (UnexpiredVictim(i, j) /\ NewKey(key)) =>
              LET r == set(M0, key, a[1], a[2], now)
                  swept == sweep(M0, now)
                  r2 == set([store |-> swept.store, calls |-> swept.calls],
                            key, a[1], a[2], now)
              IN  /\ ~MapHas(r.store, store[i].key)
                  /\ MapHas(r.store, store[j].key)
                  /\ MapGet(r.store, store[j].key) = store[j]
                  /\ get(r, store[i].key, now, now).ret = Undefined
                  /\ ~MapHas(r2.store, store[j].key)
                  /\ get(r2, store[i].key, now, now).ret = store[i].data

\* The keys whose callback returned before the last call of r was made.
Completed(r) == {r.calls[i][1] : i \in 1 .. Len(r.calls) - 1}

\* r ended by an exception exactly when a callback it invoked threw, which
\* then was the last thing it did; and then the entry that callback was
\* invoked for, and every entry no callback had been invoked for, are in
\* the map as they were.
ThrowLeavesTheRest(r) ==
    /\ r.thrown <=> (r.calls # << >> /\ throws(r.calls[Len(r.calls)][1]))
    /\ \A k \in Completed(r) : ~throws(k)
    /\ r.thrown =>
          \A j \in 1 .. Len(store) :
              store[j].key \notin Completed(r) =>
                  /\ MapHas(r.store, store[j].key)
                  /\ MapGet(r.store, store[j].key) = store[j]

\* C25: an exception thrown by onExpire is not caught: it leaves delete,
\* clear, get and has (lazy expiry), set (eviction) and the sweep callback at
\* the call that threw, so that the rest of a sweep pass is not done; the
\* entry whose callback threw and every entry not yet processed stay in the
\* map as they were, and a set() whose eviction threw does not insert its
\* key.
C25_ThrowingOnExpire ==
    /\ \A key \in Keys :
          LET d == delete(M0, key)
              g == get(M0, key, now, now)
              h == has(M0, key, now)
          IN  /\ ThrowLeavesTheRest(d) /\ (d.thrown => d.store = store)
              /\ ThrowLeavesTheRest(g) /\ (g.thrown => g.store = store)
              /\ ThrowLeavesTheRest(h) /\ (h.thrown => h.store = store)
              /\ \A a \in SetArgs :
                    LET r == set(M0, key, a[1], a[2], now)
                    IN  /\ ThrowLeavesTheRest(r)
                        /\ r.thrown => r.store = store
    /\ LET c == clear(M0)
       IN  ThrowLeavesTheRest(c) /\ (c.thrown => c.store = store)
    /\ LET w == sweep(M0, now)
       IN  /\ ThrowLeavesTheRest(w)
           /\ w.thrown =>
                 w.store = SelectSeq(store,
                                     LAMBDA e : e.key \notin Completed(w))

C25_Witness ==
    /\ options.onExpire = "throwsOnB"
    /\ options.maxSize = 2
    /\ Len(store) = 2
    /\ store[2].key = "b"
    /\ sweep(M0, now).thrown
    /\ sweep(M0, now).store = <<store[2]>>
    /\ Len(sweep(M0, now).calls) = 2
    /\ clear(M0).thrown
    /\ clear(M0).store = store
    /\ set(M0, "", 1, NoTTL, now).thrown
    /\ ~MapHas(set(M0, "", 1, NoTTL, now).store, "")

----------------------------------------------------------------------------
(* Claims about Queue.                                                     *)

\* The live elements of q, front first, read from the slots 0 .. count-1.
Packed(q) == [i \in 1 .. q.count |-> ArrayGet(q.elements, i - 1)]

\* C7: for any interleaving of enqueue and dequeue on a queue of any initial
\* capacity, dequeue returns what a plain unbounded FIFO sequence would
\* return (the oldest element not yet dequeued, absent when empty), and what
\* the queue holds is what that sequence holds, in the same order.
C7_FifoEquivalence ==
    /\ dequeue(Q).ret = IF fifo = << >> THEN Undefined ELSE Head(fifo)
    /\ toArray(Q) = fifo
    /\ toArray(enqueue(Q, nEnq + 1)) = Append(fifo, nEnq + 1)
    /\ fifo # << >> => toArray(dequeue(Q).q) = Tail(fifo)

C7_Witness ==
    /\ grows >= 1
    /\ shrinks >= 1
    /\ tail < head
    /\ count >= 2
    /\ dequeue(Q).ret = Head(fifo)

\* C8: enqueue always succeeds; it doubles the capacity exactly when
\* count = capacity at the call, repacking the live elements in FIFO order
\* from index 0 before inserting; 17 items enqueued into a queue of the
\* default capacity 16 trigger exactly one growth, to capacity 32.
C8_GrowsExactlyWhenFull ==
    /\ LET q2 == enqueue(Q, nEnq + 1)
       IN  /\ q2.count = count + 1
           /\ q2.capacity = IF count = capacity THEN 2 * capacity
                            ELSE capacity
           /\ count = capacity =>
                 /\ q2.head = 0
                 /\ Packed(q2) = Append(fifo, nEnq + 1)
    /\ (requested = DefaultCapacity /\ Len(fifo) = nEnq) =>
          /\ nEnq <= 16 => (grows = 0 /\ capacity = 16)
          /\ nEnq = 17 => (grows = 1 /\ capacity = 32)

C8_Witness ==
    /\ requested = DefaultCapacity
    /\ nEnq = 17
    /\ fifo = [i \in 1 .. 17 |-> i]
    /\ grows = 1
    /\ capacity = 32

\* C9: after a dequeue that removes an element the capacity is halved if and
\* only if the new count satisfies count > 0, count < capacity / 4 and
\* capacity > 16; the halving repacks the live elements from index 0 with
\* head = 0 and tail = count, and the new capacity is at least count; a
\* queue grown to capacity 32 and dequeued down to 7 elements shrinks
\* exactly once.
C9_ShrinksExactlyBelowQuarter ==
    /\ count > 0 =>
          LET d == dequeue(Q).q
              halve == count - 1 > 0 /\ 4 * (count - 1) < capacity
                          /\ capacity > 16
          IN  /\ d.count = count - 1
              /\ d.capacity = IF halve THEN capacity \div 2 ELSE capacity
              /\ d.capacity >= d.count
              /\ halve =>
                    /\ d.head = 0
                    /\ d.tail = d.count
                    /\ Packed(d) = Tail(fifo)
    /\ (requested = DefaultCapacity /\ nEnq = 17 /\ grows = 1) =>
          /\ Len(fifo) \in 8 .. 17 => (shrinks = 0 /\ capacity = 32)
          /\ Len(fifo) \in 1 .. 7 => (shrinks = 1 /\ capacity = 16)

C9_Witness ==
    /\ requested = DefaultCapacity
    /\ nEnq = 17
    /\ grows = 1
    /\ fifo = [i \in 1 .. 7 |-> i + 10]
    /\ shrinks = 1
    /\ capacity = 16
    /\ head = 0
    /\ tail = 7

\* C10: for every requested initial capacity c the queue starts with capacity
\* max(1, c), and no dequeue ever shrinks the capacity below 16.
C10_MinimumCapacity ==
    /\ (nEnq = 0 /\ shrinks = 0) => capacity = Max(1, requested)
    /\ dequeue(Q).q.capacity < capacity => dequeue(Q).q.capacity >= 16

\* C19: dequeue and peek on an empty queue return absent and leave head,
\* tail, count, capacity and the backing slots as they were; peek on a
\* non-empty queue returns the front element and likewise changes nothing.
C19_EmptyQueueOperations ==
    /\ count = 0 =>
          /\ dequeue(Q).ret = Undefined
          /\ dequeue(Q).q = Q
          /\ peek(Q).ret = Undefined
          /\ peek(Q).q = Q
    /\ count > 0 =>
          /\ peek(Q).ret = Head(fifo)
          /\ peek(Q).q = Q

C19_Witness ==
    /\ count = 0
    /\ nEnq >= 2
    /\ head = tail
    /\ head > 0
    /\ grows >= 1
    /\ dequeue(Q).ret = Undefined
    /\ peek(Q).ret = Undefined

\* C20: in every reachable state, wrapped-around and after any grow or
\* shrink, toArray() and a complete iteration pass both yield exactly the
\* live elements in FIFO order, their length is size, and a second toArray()
\* or pass yields the same again (neither writes a field of the queue).
C20_SnapshotsInFifoOrder ==
    /\ toArray(Q) = fifo
    /\ iterate(Q, 0) = fifo
    /\ Len(toArray(Q)) = queueSize(Q)
    /\ Len(iterate(Q, 0)) = queueSize(Q)
    /\ isEmpty(Q) <=> fifo = << >>

C20_Witness ==
    /\ shrinks >= 1
    /\ head + count > capacity
    /\ count >= 3
    /\ iterate(Q, 0) = fifo
    /\ toArray(Q) = fifo
    /\ fifo[1] = ArrayGet(elements, head)
    /\ fifo[count] = ArrayGet(elements, tail - 1)

\* The slots of the live window head .. head+count-1 (mod capacity).
LiveWindow == {(head + i) % capacity : i \in 0 .. count - 1}

\* C26: in every state reached by enqueue, dequeue and clear from a queue
\* built with an integer initial capacity, 0 <= count <= capacity, head and
\* tail are indices in 0 .. capacity-1, tail = (head + count) mod capacity,
\* and every slot of the backing array outside the live window holds no
\* element; peek, toArray and an iteration leave the queue as it is.
C26_RingBufferInvariant ==
    /\ 0 <= count /\ count <= capacity
    /\ 0 <= head /\ head < capacity
    /\ 0 <= tail /\ tail < capacity
    /\ tail = (head + count) % capacity
    /\ \A i \in DOMAIN elements :
          i \notin LiveWindow => elements[i] = Undefined
    /\ \A i \in LiveWindow : ArrayGet(elements, i) # Undefined
    /\ peek(Q).q = Q

C26_Witness ==
    /\ tail < head
    /\ count > 1
    /\ count < capacity
    /\ grows >= 1
    /\ \E i \in DOMAIN elements : i \notin LiveWindow

----------------------------------------------------------------------------
(* Claims about CooldownManager.                                           *)

\* key is under an active cooldown: it has an entry whose expiry the clock
\* has not passed.
Active(key) == key \in DOMAIN cooldowns /\ now <= cooldowns[key]

\* The timer one setCooldown(key, d) schedules at clock reading t.
TimerOf(key, d, t) == SetToBag({[key |-> key, due |-> t + d]})

\* C11: setCooldown(key, d) on a key under an active cooldown returns false,
\* leaves the expiry of key and of every other entry as it was and schedules
\* no timer; otherwise it returns true, records expiresAt = now + d for key,
\* leaves the other entries as they were and schedules exactly one timer,
\* due d later.
C11_SetCooldownOnActiveKey ==
    \A key \in CooldownKeys : \A d \in Durations : \A t2 \in {now, now + 1} :
        LET r == setCooldown(CD, key, d, now, t2)
        IN  IF Active(key)
            THEN /\ r.ret = FALSE
                 /\ r.cooldowns = cooldowns
                 /\ r.timers = timers
            ELSE /\ r.ret = TRUE
                 /\ DOMAIN r.cooldowns = DOMAIN cooldowns \cup {key}
                 /\ r.cooldowns[key] = t2 + d
                 /\ \A k \in DOMAIN cooldowns \ {key} :
                       r.cooldowns[k] = cooldowns[k]
                 /\ r.timers = timers (+) TimerOf(key, d, t2)

C11_Witness ==
    /\ Active("u1")
    /\ cooldowns["u1"] = now
    /\ "u2" \in DOMAIN cooldowns
    /\ ~Active("u2")
    /\ BagCardinality(timers) = 2
    /\ setCooldown(CD, "u1", 2, now, now).ret = FALSE
    /\ setCooldown(CD, "u2", 2, now, now).ret = TRUE

\* C12 as claimed: after the last successful setCooldown(key, d), made at
\* time t, at every time t' >= t + d hasCooldown(key) returns false and
\* setCooldown(key, d') returns true, whether or not the removal timer has
\* run.
C12_EndsAtExpiryTime ==
    \A key \in CooldownKeys :
        (grant[key].set /\ now >= grant[key].until) =>
            /\ ~hasCooldown(CD, key, now).ret
            /\ \A d \in Durations : setCooldown(CD, key, d, now, now).ret

\* C12, amended: at every time t' > t + d hasCooldown(key) returns false and
\* setCooldown(key, d') returns true, whether or not the removal timer has
\* run; at t' = t + d they do so once the entry is gone (the timer has run,
\* or reset or clear was called), and while the entry is still in the map
\* hasCooldown(key) returns true and setCooldown(key, d') returns false.
C12_EndsAfterExpiryTime ==
    \A key \in CooldownKeys :
        LET ended == now > grant[key].until
                        \/ (now = grant[key].until
                               /\ key \notin DOMAIN cooldowns)
        IN  (grant[key].set /\ now >= grant[key].until) =>
                /\ hasCooldown(CD, key, now).ret = ~ended
                /\ \A d \in Durations :
                      setCooldown(CD, key, d, now, now).ret = ended

C12_Witness ==
    \E key \in CooldownKeys :
        /\ grant[key].set
        /\ grant[key].kept
        /\ now > grant[key].until
        /\ key \in DOMAIN cooldowns
        /\ BagIn([key |-> key, due |-> grant[key].until], timers)
        /\ ~hasCooldown(CD, key, now).ret
        /\ setCooldown(CD, key, 1, now, now).ret

\* C13: once setCooldown(key, d) has returned true at time t, hasCooldown(key)
\* returns true at every time t' with t <= t' < t + d unless reset(key) or
\* clear() was called in between, whatever timers of earlier setCooldown
\* calls ran in between.
C13_StaleTimersHarmless ==
    \A key \in CooldownKeys :
        (grant[key].set /\ grant[key].kept
            /\ grant[key].at <= now /\ now < grant[key].until) =>
            hasCooldown(CD, key, now).ret

\* C14 as claimed: getRemaining(key) is never negative and leaves the map as
\* it was; it is 0 when key has no entry or its expiry has passed and
\* expiresAt - now otherwise; right after a successful setCooldown(key, d)
\* it is in 1 .. d; and it is positive whenever hasCooldown(key) returns true
\* at the same clock reading.
C14_PositiveWheneverOnCooldown ==
    \A key \in CooldownKeys :
        LET r == getRemaining(CD, key, now)
        IN  /\ r.ret >= 0
            /\ r.cooldowns = cooldowns
            /\ r.ret = IF key \in DOMAIN cooldowns /\ now < cooldowns[key]
                       THEN cooldowns[key] - now ELSE 0
            /\ \A d \in Durations : \A t2 \in {now, now + 1} :
                  LET s == setCooldown(CD, key, d, now, t2)
                  IN  s.ret => getRemaining(s, key, t2).ret \in 1 .. d
            /\ hasCooldown(CD, key, now).ret => r.ret > 0

\* C14, amended: as claimed, but it is positive whenever hasCooldown(key)
\* returns true at the same clock reading and the clock is before expiresAt;
\* at the clock reading expiresAt itself hasCooldown(key) returns true and
\* getRemaining(key) returns 0.
C14_PositiveBeforeExpiryTime ==
    \A key \in CooldownKeys :
        LET r == getRemaining(CD, key, now)
        IN  /\ r.ret >= 0
            /\ r.cooldowns = cooldowns
            /\ r.ret = IF key \in DOMAIN cooldowns /\ now < cooldowns[key]
                       THEN cooldowns[key] - now ELSE 0
            /\ \A d \in Durations : \A t2 \in {now, now + 1} :
                  LET s == setCooldown(CD, key, d, now, t2)
                  IN  s.ret => getRemaining(s, key, t2).ret \in 1 .. d
            /\ hasCooldown(CD, key, now).ret =>
                  (r.ret > 0 <=> now < cooldowns[key])

C14_Witness ==
    /\ "u1" \in DOMAIN cooldowns
    /\ now = cooldowns["u1"]
    /\ hasCooldown(CD, "u1", now).ret
    /\ getRemaining(CD, "u1", now).ret = 0
    /\ "u2" \in DOMAIN cooldowns
    /\ now > cooldowns["u2"]
    /\ getRemaining(CD, "u2", now).ret = 0
    /\ getRemaining(setCooldown(CD, "u2", 2, now, now), "u2", now).ret = 2

\* The entry of key is in the map and its expiry time has passed.
Stale(key) == key \in DOMAIN cooldowns /\ now > cooldowns[key]

\* C27: hasCooldown(key) returns true exactly when the map holds an entry
\* for key with now <= expiresAt; when the entry is there with
\* now > expiresAt it removes it (size() is one less, key is no longer in
\* getKeys()) and returns false; otherwise the map is as it was; the
\* entries of the other keys, and the timers, are never touched.
C27_HasCooldownExact ==
    \A key \in CooldownKeys :
        LET h == hasCooldown(CD, key, now)
        IN  /\ h.ret <=> Active(key)
            /\ Stale(key) =>
                  /\ ~h.ret
                  /\ cooldownSize(h) = cooldownSize(CD) - 1
                  /\ key \notin getKeys(h)
            /\ ~Stale(key) => h.cooldowns = cooldowns
            /\ \A other \in CooldownKeys \ {key} :
                  /\ other \in getKeys(h) <=> other \in getKeys(CD)
                  /\ other \in getKeys(CD) =>
                        h.cooldowns[other] = cooldowns[other]
            /\ h.timers = timers

C27_Witness ==
    /\ Stale("u1")
    /\ Active("u2")
    /\ ~hasCooldown(CD, "u1", now).ret
    /\ getKeys(hasCooldown(CD, "u1", now)) = {"u2"}
    /\ hasCooldown(CD, "u2", now).ret

\* C28: with the host running every timer whose delay has elapsed, an entry
\* created by a successful setCooldown is eventually absent from the map
\* (not in getKeys(), not counted by size()), whether or not hasCooldown,
\* reset or clear is called for it; and the callback of a timer leaves the
\* entries of every key other than its own as they are.
C28_EntriesSelfRemove ==
    /\ \A key \in CooldownKeys :
          (key \in getKeys(CD)) ~> (key \notin getKeys(CD))
    /\ [](\A tm \in BagToSet(timers) :
             LET f == timerCallback(CD, tm)
             IN  /\ tm.key \notin getKeys(f)
                 /\ cooldownSize(f) =
                       cooldownSize(CD) -
                          (IF tm.key \in getKeys(CD) THEN 1 ELSE 0)
                 /\ \A other \in CooldownKeys \ {tm.key} :
                       /\ other \in getKeys(f) <=> other \in getKeys(CD)
                       /\ other \in getKeys(CD) =>
                             f.cooldowns[other] = cooldowns[other])

\* The entry of u1 is gone at its expiry time, while hasCooldown would still
\* have kept it, with no reset or clear since it was set, and the entry of
\* u2 is still there.
C28_Witness ==
    /\ grant["u1"].set
    /\ grant["u1"].kept
    /\ now = grant["u1"].until
    /\ "u1" \notin getKeys(CD)
    /\ getKeys(CD) = {"u2"}
    /\ now > MaxTime

\* C30: neither the store's periodic sweep timer nor a pending cooldown
\* removal timer counts as pending work of the host, so that a process with
\* no other outstanding work than these timers is able to end.
C30_TimersDoNotBlockShutdown == ~KeepsAlive

====
